---- MODULE Spec2Model ----
(***************************************************************************)
(* Model of src/app.py: the keyword sanitizer (clean_keyword), the stats   *)
(* call with its retry loop (fetch_keyword_data), the two bid requests     *)
(* (fetch_bid_data), the per-keyword merge (process_single_keyword) and    *)
(* the batch loop (search_keywords).                                       *)
(*                                                                         *)
(* Strings are sequences of one-character strings.  Time is counted in     *)
(* ticks of 1/120 s, in which every pacing interval 1.0/calls_per_second   *)
(* of SPEED_MODES is a whole number.                                       *)
(***************************************************************************)
EXTENDS Integers, Sequences, FiniteSets, TLC

VARIABLES
    \* ---- search_keywords: inputs, loop and results ----
    keywords,         \* the list given by main(): stripped, non-empty, distinct
    speed_mode,       \* index into SPEED_MODES
    pc,               \* position of the (single) thread of control
    idx,              \* number of keywords classified so far (loop index)
    results,          \* rows of the keywords that succeeded
    failed_keywords,  \* raw strings of the keywords that failed
    status_log,       \* updates sent to progress_bar / status_text, in order
    requests,         \* requests sent to the upstream during this run
    \* ---- process_single_keyword: the keyword being processed ----
    kw_item,          \* what fetch_keyword_data returned (None or a dict)
    bid_results,      \* the dict fetch_bid_data builds
    result,           \* what process_single_keyword returned (None or a row)
    exc,              \* the exception caught on line 330 ("none" if none)
    \* ---- fetch_keyword_data ----
    attempt,          \* loop variable of line 113
    sent,             \* stats requests sent for this keyword
    responses,        \* what the upstream answered to them, in order
    \* ---- fetch_bid_data ----
    device,           \* device of the current fetch_device_bid call
    bid_log,          \* bid requests sent for this keyword: device, status,
                      \* whether the body parsed, the dict fetch_device_bid
                      \* returned
    \* ---- time.sleep, per client instance ----
    slept_pace,       \* ticks of pacing sleep since the last request completed
    slept_wait,       \* seconds of retry wait since the last request completed
    last_gap,         \* slept_pace, slept_wait at the moment of the last send
    \* ---- clean_keyword applied to a bounded string (SpecClean) ----
    cstep,            \* 0: input chosen, 1: cleaned once, 2: cleaned twice
    cin,              \* the raw string
    cout,             \* clean_keyword(cin)
    cout2,            \* clean_keyword(cout)
    \* ---- a sanitizer applied to a bounded value (SpecSanitize) ----
    sstep,            \* 0: input chosen, 1: a sanitizer was applied
    svalue,           \* the value given to the sanitizer
    sfun,             \* the sanitizer applied ("none" before)
    sout              \* what it returned, or the exception it raised

batchVars == <<keywords, speed_mode, pc, idx, results, failed_keywords, status_log,
               requests>>
keywordVars == <<kw_item, bid_results, result, exc>>
statsVars == <<attempt, sent, responses>>
bidVars == <<device, bid_log>>
sleepVars == <<slept_pace, slept_wait, last_gap>>
cleanVars == <<cstep, cin, cout, cout2>>
sanVars == <<sstep, svalue, sfun, sout>>

vars == <<batchVars, keywordVars, statsVars, bidVars, sleepVars, cleanVars,
          sanVars>>

\* ---------------------------------------------------------------------------
\* Bounds of the model
\* ---------------------------------------------------------------------------

\* longest raw string given to clean_keyword in SpecClean
MaxLen == 5

\* longest keyword list given to search_keywords
MaxKeywords == 2

\* ---------------------------------------------------------------------------
\* Characters
\* ---------------------------------------------------------------------------

\* characters for which str.isalnum() is true
Alnum == {"a", "b", "1"}

\* characters str.strip() removes (whitespace)
Whitespace == {" ", "\t", "\n"}

\* the ASCII characters of the literal of line 93 (its Hangul characters are
\* alphanumeric, so they are covered by isalnum)
AllowedLiteral == {" ", ".", "-", "_"}

isalnum(c) == c \in Alnum

\* ---------------------------------------------------------------------------
\* clean_keyword (lines 78-101)
\* ---------------------------------------------------------------------------

RECURSIVE lstrip(_)
lstrip(s) ==
    IF s # <<>> /\ Head(s) \in Whitespace THEN lstrip(Tail(s)) ELSE s

RECURSIVE rstrip(_)
rstrip(s) ==
    IF s # <<>> /\ s[Len(s)] \in Whitespace
    THEN rstrip(SubSeq(s, 1, Len(s) - 1))
    ELSE s

\* str.strip()
strip(s) == rstrip(lstrip(s))

\* '  ' in cleaned
HasDoubleSpace(s) == \E i \in 1..(Len(s) - 1) : s[i] = " " /\ s[i + 1] = " "

\* cleaned.replace('  ', ' '): leftmost, non-overlapping occurrences
RECURSIVE ReplaceDoubleSpace(_)
ReplaceDoubleSpace(s) ==
    IF Len(s) < 2 THEN s
    ELSE IF s[1] = " " /\ s[2] = " "
         THEN <<" ">> \o ReplaceDoubleSpace(SubSeq(s, 3, Len(s)))
         ELSE <<s[1]>> \o ReplaceDoubleSpace(Tail(s))

\* while '  ' in cleaned: cleaned = cleaned.replace('  ', ' ')
RECURSIVE CollapseSpaces(_)
CollapseSpaces(s) ==
    IF HasDoubleSpace(s) THEN CollapseSpaces(ReplaceDoubleSpace(s)) ELSE s

\* the loop of lines 91-94
KeepAllowed(s) == SelectSeq(s, LAMBDA c : isalnum(c) \/ c \in AllowedLiteral)

\* the length limit of lines 98-99
MaxKeywordLen == 50

clean_keyword(keyword) ==
    IF keyword = <<>> THEN <<>>
    ELSE LET cleaned == CollapseSpaces(strip(keyword))
             allowed_chars == KeepAllowed(cleaned)
             stripped == strip(allowed_chars)
         IN  IF Len(stripped) > MaxKeywordLen
             THEN strip(SubSeq(stripped, 1, MaxKeywordLen))
             ELSE stripped

\* ---------------------------------------------------------------------------
\* Python values of upstream JSON fields.  n holds the number (a finite float
\* is held in units of 1/10000), s the characters of a string.
\* ---------------------------------------------------------------------------

None == [t |-> "None", n |-> 0, s |-> <<>>]
PyInt(i) == [t |-> "int", n |-> i, s |-> <<>>]
PyFloat(e4) == [t |-> "float", n |-> e4, s |-> <<>>]
NaN == [t |-> "nan", n |-> 0, s |-> <<>>]
Infinity == [t |-> "inf", n |-> 0, s |-> <<>>]
PyStr(str) == [t |-> "str", n |-> 0, s |-> str]
PyList == [t |-> "list", n |-> 0, s |-> <<>>]

\* an exception leaving a function
Raise(e) == [t |-> "raise", n |-> 0, s |-> <<e>>]
Raised(x) == "t" \in DOMAIN x /\ x.t = "raise"

\* dict.get(key, default)
Get(d, key, default) == IF key \in DOMAIN d THEN d[key] ELSE default

\* truth value of a Python value (if x: ...)
Truthy(x) ==
    CASE x.t = "None" -> FALSE
      [] x.t = "int" -> x.n # 0
      [] x.t = "float" -> x.n # 0
      [] x.t = "str" -> x.s # <<>>
      [] x.t = "list" -> FALSE
      [] OTHER -> TRUE

Digits == <<"0", "1", "2", "3", "4", "5", "6", "7", "8", "9">>
isdigit(c) == \E d \in 1..10 : Digits[d] = c
DigitValue(c) == (CHOOSE d \in 1..10 : Digits[d] = c) - 1

\* decimal digits of n >= 0
RECURSIVE DigitsOf(_)
DigitsOf(i) ==
    IF i < 10 THEN <<Digits[i + 1]>>
    ELSE DigitsOf(i \div 10) \o <<Digits[(i % 10) + 1]>>

\* the number a string of digits spells (0 for the empty string)
RECURSIVE NumberOf(_)
NumberOf(ds) ==
    IF ds = <<>> THEN 0
    ELSE 10 * NumberOf(SubSeq(ds, 1, Len(ds) - 1)) + DigitValue(ds[Len(ds)])

RECURSIVE GroupDigits(_)
GroupDigits(ds) ==
    IF Len(ds) <= 3 THEN ds
    ELSE GroupDigits(SubSeq(ds, 1, Len(ds) - 3)) \o <<",">>
             \o SubSeq(ds, Len(ds) - 2, Len(ds))

\* f"{num:,}"
FormatGrouped(i) ==
    IF i < 0 THEN <<"-">> \o GroupDigits(DigitsOf(-i)) ELSE GroupDigits(DigitsOf(i))

\* int(x) of a finite float held in units of 1/10000: truncation toward zero
TruncE4(e4) == IF e4 >= 0 THEN e4 \div 10000 ELSE -((-e4) \div 10000)

Count(str, c) == Cardinality({i \in 1..Len(str) : str[i] = c})

\* value.split(ch)[-1]
AfterLast(str, c) ==
    LET last == CHOOSE i \in 1..Len(str) :
                    str[i] = c /\ \A j \in (i + 1)..Len(str) : str[j] # c
    IN  SubSeq(str, last + 1, Len(str))

\* str.replace(c, '', 1)
RemoveFirst(str, c) ==
    IF Count(str, c) = 0 THEN str
    ELSE LET first == CHOOSE i \in 1..Len(str) :
                          str[i] = c /\ \A j \in 1..(i - 1) : str[j] # c
         IN  SubSeq(str, 1, first - 1) \o SubSeq(str, first + 1, Len(str))

\* str.replace(c, '')
RemoveAll(str, c) == SelectSeq(str, LAMBDA x : x # c)

\* float(str) accepts a string of digits and dots that holds a digit and at
\* most one dot
IsUnsignedFloat(str) ==
    /\ \A i \in 1..Len(str) : isdigit(str[i]) \/ str[i] = "."
    /\ Count(str, ".") <= 1
    /\ \E i \in 1..Len(str) : isdigit(str[i])

\* int(float(str)) of such a string: the digits before the dot
IntPart(str) ==
    IF Count(str, ".") = 0 THEN NumberOf(str)
    ELSE LET dot == CHOOSE i \in 1..Len(str) : str[i] = "."
         IN  NumberOf(SubSeq(str, 1, dot - 1))

\* ---------------------------------------------------------------------------
\* safe_get_number (lines 246-265)
\* ---------------------------------------------------------------------------

safe_get_number(value, default) ==
    CASE value.t = "None" -> PyInt(default)
      [] value.t = "int" -> PyInt(value.n)
      [] value.t = "float" -> PyInt(TruncE4(value.n))
      \* int(nan) and int(inf) raise outside the try block
      [] value.t = "nan" -> Raise("ValueError")
      [] value.t = "inf" -> Raise("OverflowError")
      [] value.t = "str" ->
            LET v1 == IF Count(value.s, "<") > 0 THEN strip(AfterLast(value.s, "<"))
                      ELSE IF Count(value.s, ">") > 0
                           THEN strip(AfterLast(value.s, ">"))
                           ELSE value.s
                clean_value == SelectSeq(v1, LAMBDA c : isdigit(c) \/ c = ".")
            IN  IF clean_value = <<>> THEN PyInt(default)
                ELSE IF IsUnsignedFloat(clean_value)
                     THEN PyInt(IntPart(clean_value))
                     ELSE PyInt(default)   \* float() raised: except: pass
      [] OTHER -> PyInt(default)

\* ---------------------------------------------------------------------------
\* safe_format_number (lines 267-270)
\* ---------------------------------------------------------------------------

safe_format_number(value) ==
    LET num == safe_get_number(value, 0)
    IN  IF Raised(num) THEN num ELSE PyStr(FormatGrouped(num.n))

\* ---------------------------------------------------------------------------
\* safe_format_percentage (lines 272-278)
\* ---------------------------------------------------------------------------

TwoDigits(i) == IF i < 10 THEN <<"0">> \o DigitsOf(i) ELSE DigitsOf(i)

\* f"{round(value * 100, 2):.2f}%" of a value held in units of 1/10000
PercentE4(e4) ==
    LET a == IF e4 < 0 THEN -e4 ELSE e4
        body == DigitsOf(a \div 100) \o <<".">> \o TwoDigits(a % 100) \o <<"%">>
    IN  IF e4 < 0 THEN <<"-">> \o body ELSE body

safe_format_percentage(value) ==
    CASE value.t = "None" -> PyStr(<<"0", ".", "0", "0", "%">>)
      [] value.t = "int" -> PyStr(PercentE4(value.n * 10000))
      [] value.t = "float" -> PyStr(PercentE4(value.n))
      [] value.t = "nan" -> PyStr(<<"n", "a", "n", "%">>)
      [] value.t = "inf" -> PyStr(<<"i", "n", "f", "%">>)
      [] OTHER -> PyStr(<<"0", ".", "0", "0", "%">>)

\* ---------------------------------------------------------------------------
\* safe_format_bid (lines 280-292)
\* ---------------------------------------------------------------------------

Dash == <<"-">>

safe_format_bid(bid) ==
    CASE bid.t = "None" -> PyStr(Dash)
      [] bid.t = "int" ->
            IF bid.n = 0 THEN PyStr(Dash)
            ELSE IF bid.n > 0 THEN PyStr(FormatGrouped(bid.n)) ELSE PyStr(Dash)
      [] bid.t = "float" ->
            IF bid.n = 0 THEN PyStr(Dash)
            ELSE IF bid.n > 0 THEN PyStr(FormatGrouped(TruncE4(bid.n)))
                 ELSE PyStr(Dash)
      \* nan > 0 is false; int(inf) raises inside the try block
      [] bid.t = "nan" -> PyStr(Dash)
      [] bid.t = "inf" -> PyStr(Dash)
      [] bid.t = "str" ->
            IF bid.s = <<>> THEN PyStr(Dash)
            ELSE LET bid_str == RemoveAll(RemoveAll(bid.s, ","), " ")
                     probe == RemoveFirst(RemoveFirst(bid_str, "."), "-")
                     negative == bid_str # <<>> /\ bid_str[1] = "-"
                     magnitude == IF negative THEN Tail(bid_str) ELSE bid_str
                 IN  IF probe # <<>> /\ \A i \in 1..Len(probe) : isdigit(probe[i])
                     THEN IF IsUnsignedFloat(magnitude)
                          THEN PyStr(FormatGrouped(
                                   IF negative THEN -IntPart(magnitude)
                                   ELSE IntPart(magnitude)))
                          ELSE PyStr(Dash)   \* float() raised: except
                     ELSE PyStr(Dash)
      \* str(bid) of a list or dict holds brackets: not a digit string
      [] OTHER -> PyStr(Dash)

\* ---------------------------------------------------------------------------
\* SPEED_MODES (lines 22-58); calls_per_second is held in tenths
\* ---------------------------------------------------------------------------

SPEED_MODES ==
    [m \in 0..4 |->
        CASE m = 0 -> [calls_per_second_x10 |-> 15, timeout |-> 30,
                       retry_count |-> 2, wait_between_retries |-> <<5, 15>>]
          [] m = 1 -> [calls_per_second_x10 |-> 25, timeout |-> 25,
                       retry_count |-> 3, wait_between_retries |-> <<5, 10, 20>>]
          [] m = 2 -> [calls_per_second_x10 |-> 40, timeout |-> 20,
                       retry_count |-> 3, wait_between_retries |-> <<3, 8, 15>>]
          [] m = 3 -> [calls_per_second_x10 |-> 60, timeout |-> 15,
                       retry_count |-> 2, wait_between_retries |-> <<2, 8>>]
          [] m = 4 -> [calls_per_second_x10 |-> 80, timeout |-> 12,
                       retry_count |-> 2, wait_between_retries |-> <<2, 5>>]]

\* mode_config = SPEED_MODES[speed_mode] (line 335)
mode_config == SPEED_MODES[speed_mode]

\* ticks in one second of time.sleep
TicksPerSecond == 120

\* 1.0 / mode_config['calls_per_second'], in ticks (lines 120, 194)
PacingInterval(config) == (TicksPerSecond * 10) \div config.calls_per_second_x10

Min(a, b) == IF a <= b THEN a ELSE b

\* wait_between_retries[min(i, len(wait_between_retries) - 1)], i counted from 0
\* (lines 116, 164, 169)
WaitBetweenRetries(config, i) ==
    config.wait_between_retries[Min(i, Len(config.wait_between_retries) - 1) + 1]

\* mutant of AttemptInRange: the loop stops one attempt early
AttemptInRange_OneFewer(a, config) == a < config.retry_count - 1

\* mutant of AttemptInRange: the loop runs twice the configured attempts
AttemptInRange_Twice(a, config) == a < 2 * config.retry_count

\* mutant of AttemptInRange: the loop makes one attempt too many
AttemptInRange_OneMore(a, config) == a <= config.retry_count

\* range(mode_config['retry_count']) has a next value (line 113)
AttemptInRange(a, config) == a < config.retry_count

\* ---------------------------------------------------------------------------
\* The upstream: what a request can be answered with
\* ---------------------------------------------------------------------------

\* elements of keywordList
ItemOK ==
    [relKeyword |-> PyStr(<<"a">>),
     monthlyPcQcCnt |-> PyInt(1200),
     monthlyMobileQcCnt |-> PyStr(<<"<", " ", "1", "0">>),
     monthlyAvePcCtr |-> PyFloat(1234),
     compIdx |-> PyStr(<<"l", "o", "w">>)]

\* a count that json parsed from NaN: int() of it raises
ItemNaN ==
    [relKeyword |-> PyStr(<<"a">>),
     monthlyPcQcCnt |-> NaN,
     monthlyMobileQcCnt |-> PyInt(7)]

\* an element without a primary keyword
ItemNoRel ==
    [relKeyword |-> PyStr(<<>>),
     monthlyPcQcCnt |-> PyInt(5)]

\* isinstance(x, dict): the Python values above are records with a field t
IsDict(x) == "t" \notin DOMAIN x

KeywordLists ==
    { <<>>, <<ItemOK>>, <<ItemNaN>>, <<ItemNoRel, ItemOK>>, <<ItemOK, ItemNoRel>>,
      <<PyStr(<<"a">>)>> }

\* a response with a status code; json_ok: response.json() returns a dict
HttpResponse(status, json_ok, keywordList, estimate) ==
    [exc |-> "none", status |-> status, json_ok |-> json_ok,
     keywordList |-> keywordList, estimate |-> estimate]

\* session.get / session.post raises
RequestException(e) ==
    [exc |-> e, status |-> 0, json_ok |-> FALSE, keywordList |-> <<>>,
     estimate |-> <<>>]

ErrorStatuses == {401, 403, 429, 500}

StatsResponses ==
    {HttpResponse(200, TRUE, l, <<>>) : l \in KeywordLists}
        \cup {HttpResponse(200, FALSE, <<>>, <<>>)}
        \cup {HttpResponse(st, FALSE, <<>>, <<>>) : st \in ErrorStatuses}
        \cup {RequestException("Timeout"), RequestException("ConnectionError")}

Positions == <<1, 2, 3, 4, 5>>

EstimateFull ==
    << [position |-> 1, bid |-> PyInt(1500)], [position |-> 2, bid |-> PyInt(1200)],
       [position |-> 3, bid |-> PyInt(900)],  [position |-> 4, bid |-> PyInt(600)],
       [position |-> 5, bid |-> PyInt(70)] >>

EstimatePartial ==
    << [position |-> 1, bid |-> PyInt(1500)], [position |-> 3, bid |-> PyInt(0)] >>

EstimateLists == { <<>>, EstimateFull, EstimatePartial }

BidResponses ==
    {HttpResponse(200, TRUE, <<>>, e) : e \in EstimateLists}
        \cup {HttpResponse(200, FALSE, <<>>, <<>>)}
        \cup {HttpResponse(st, FALSE, <<>>, <<>>) : st \in ErrorStatuses}
        \cup {RequestException("Timeout")}

\* ---------------------------------------------------------------------------
\* fetch_keyword_data (lines 103-186)
\* ---------------------------------------------------------------------------

\* isinstance(x, dict) and x.get('relKeyword') (line 155)
HasRelKeyword(x) == IsDict(x) /\ Truthy(Get(x, "relKeyword", None))

\* mutant of SelectItem: the list is searched for the first element that
\* has a primary keyword
RECURSIVE SelectItem_FirstMatch(_)
SelectItem_FirstMatch(data) ==
    IF data = <<>> THEN None
    ELSE IF HasRelKeyword(Head(data)) THEN Head(data)
    ELSE SelectItem_FirstMatch(Tail(data))

\* lines 153-158: what a parsed 200 answer makes fetch_keyword_data return:
\* data[0] if it is a dict with a primary keyword, None otherwise
SelectItem(data) ==
    IF data # <<>> /\ HasRelKeyword(data[1]) THEN data[1] ELSE None

\* mutant of HandleStatsResponse: a 401 is retried like any other status
HandleStatsResponse_Retry401(r, a, config) ==
    IF r.exc # "none"
    THEN [op |-> "continue", value |-> None, wait |-> 0]
    ELSE IF r.status = 200
    THEN IF ~r.json_ok
         THEN [op |-> "continue", value |-> None, wait |-> 0]
         ELSE [op |-> "return", value |-> SelectItem(r.keywordList), wait |-> 0]
    ELSE IF r.status = 403 \/ r.status = 429
    THEN [op |-> "continue", value |-> None,
          wait |-> WaitBetweenRetries(config, a)]
    ELSE [op |-> "continue", value |-> None, wait |-> 0]

\* What lines 148-183 do with the answer to attempt a: return a value
\* (op = "return") or go on with the next attempt (op = "continue") after
\* sleeping `wait` seconds.
HandleStatsResponse(r, a, config) ==
    IF r.exc # "none"
    THEN [op |-> "continue", value |-> None, wait |-> 0]          \* 179-183
    ELSE IF r.status = 200
    THEN IF ~r.json_ok
         THEN [op |-> "continue", value |-> None, wait |-> 0]     \* 160-161
         ELSE [op |-> "return", value |-> SelectItem(r.keywordList),
               wait |-> 0]                                        \* 150-158
    ELSE IF r.status = 403 \/ r.status = 429
    THEN [op |-> "continue", value |-> None,
          wait |-> WaitBetweenRetries(config, a)]                 \* 163-171
    ELSE IF r.status = 401
    THEN [op |-> "return", value |-> None, wait |-> 0]            \* 173-174
    ELSE [op |-> "continue", value |-> None, wait |-> 0]          \* 176-177

\* lines 105-110: the keyword is cleaned; an empty one returns None at once
FkdStart ==
    /\ pc = "fkd_start"
    /\ IF clean_keyword(keywords[idx + 1]) = <<>>
       THEN /\ kw_item' = None
            /\ pc' = "psk_stats"
       ELSE /\ kw_item' = kw_item
            /\ pc' = "fkd_loop"
    /\ attempt' = 0
    /\ UNCHANGED <<keywords, speed_mode, idx, results, failed_keywords, status_log,
                   bid_results, result, exc, sent, responses, bidVars, sleepVars,
                   cleanVars, sanVars, requests>>

\* mutant of RetryWait: a retry starts without the wait of lines 115-117
RetryWait_None(a, config) == 0

\* lines 115-117: the seconds slept at the top of attempt a, before its
\* pacing sleep: nothing on the first attempt, wait_between_retries[min(a-1,
\* len-1)] on every later one, whatever ended the attempt before
RetryWait(a, config) ==
    IF a > 0 THEN WaitBetweenRetries(config, a - 1) ELSE 0

\* lines 113-146: one more attempt: the wait before a retry, the pacing
\* sleep, and the request is sent
FkdAttempt ==
    /\ pc = "fkd_loop"
    /\ AttemptInRange(attempt, mode_config)
    /\ LET wait_time == RetryWait(attempt, mode_config)
           pace == slept_pace + PacingInterval(mode_config)
       IN  /\ slept_wait' = slept_wait + wait_time
           /\ slept_pace' = pace
           /\ last_gap' = [pace |-> pace, wait |-> slept_wait + wait_time]
    /\ sent' = sent + 1
    /\ requests' = requests + 1
    /\ pc' = "fkd_wait"
    /\ UNCHANGED <<keywords, speed_mode, idx, results, failed_keywords, status_log,
                   keywordVars, attempt, responses, bidVars, cleanVars, sanVars>>

\* lines 113, 186: the range is used up
FkdExhausted ==
    /\ pc = "fkd_loop"
    /\ ~AttemptInRange(attempt, mode_config)
    /\ kw_item' = None
    /\ pc' = "psk_stats"
    /\ UNCHANGED <<keywords, speed_mode, idx, results, failed_keywords, status_log,
                   bid_results, result, exc, statsVars, bidVars, sleepVars,
                   cleanVars, sanVars, requests>>

\* lines 140-183: the request completes and its answer is handled
FkdResponse ==
    /\ pc = "fkd_wait"
    /\ \E r \in StatsResponses :
        LET h == HandleStatsResponse(r, attempt, mode_config)
        IN  /\ responses' = Append(responses, r)
            /\ slept_pace' = 0
            /\ slept_wait' = h.wait
            /\ IF h.op = "return"
               THEN /\ kw_item' = h.value
                    /\ attempt' = attempt
                    /\ pc' = "psk_stats"
               ELSE /\ kw_item' = kw_item
                    /\ attempt' = attempt + 1
                    /\ pc' = "fkd_loop"
    /\ UNCHANGED <<keywords, speed_mode, idx, results, failed_keywords, status_log,
                   bid_results, result, exc, sent, bidVars, last_gap, cleanVars, sanVars, requests>>

\* ---------------------------------------------------------------------------
\* fetch_bid_data (lines 188-244)
\* ---------------------------------------------------------------------------

\* f"{device} {pos}" followed by the rank suffix
BidColumn(d, pos) == d \o " " \o ToString(pos)

EmptyDict == [k \in {} |-> None]

\* {f"{device} {pos}...": None for pos in [1, 2, 3, 4, 5]} (lines 211, 238)
AllNone(d) == [k \in {BidColumn(d, Positions[i]) : i \in 1..Len(Positions)} |-> None]

\* lines 228-233: result[f"{device} {pos}..."] = bid for every item, a later
\* item overwriting an earlier one with the same position
RECURSIVE EstimateDict(_, _)
EstimateDict(d, estimates) ==
    IF estimates = <<>> THEN EmptyDict
    ELSE LET item == estimates[Len(estimates)]
         IN  (BidColumn(d, item.position) :> item.bid)
                 @@ EstimateDict(d, SubSeq(estimates, 1, Len(estimates) - 1))

\* lines 225-238: what fetch_device_bid returns for an answer
HandleBidResponse(d, r) ==
    IF r.exc = "none" /\ r.status = 200 /\ r.json_ok
    THEN EstimateDict(d, r.estimate)
    ELSE AllNone(d)

\* mutant of Update: the dict is replaced, not merged
Update_Replace(dict, x) == x

\* bid_results.update(x)
Update(dict, x) == x @@ dict

\* mutant of AfterDevice: the device's request is made again
AfterDevice_Again(d) == [device |-> d, pc |-> "bid_send"]

\* what follows fetch_device_bid(d): the MOBILE call after the PC call
\* (lines 241-242), the merge after the MOBILE call
AfterDevice(d) ==
    IF d = "PC" THEN [device |-> "MOBILE", pc |-> "bid_send"]
    ELSE [device |-> d, pc |-> "psk_merge"]

\* mutant of BidPacing: the bid request is sent without the pacing sleep
BidPacing_Skipped(slept, config) == slept

\* the pacing sleep of line 194, in ticks slept since the last request
BidPacing(slept, config) == slept + PacingInterval(config)

\* lines 192-223: the pacing sleep, then the request is sent unless the
\* cleaned keyword is empty (line 211)
BidSend ==
    /\ pc = "bid_send"
    /\ slept_pace' = BidPacing(slept_pace, mode_config)
    /\ IF clean_keyword(keywords[idx + 1]) = <<>>
       THEN /\ bid_results' = Update(bid_results, AllNone(device))
            /\ device' = AfterDevice(device).device
            /\ pc' = AfterDevice(device).pc
            /\ UNCHANGED <<bid_log, last_gap, requests>>
       ELSE /\ requests' = requests + 1
            /\ bid_log' = Append(bid_log, [device |-> device, status |-> -1,
                                           json_ok |-> FALSE,
                                           returned |-> EmptyDict])
            /\ last_gap' = [pace |-> slept_pace', wait |-> slept_wait]
            /\ pc' = "bid_wait"
            /\ UNCHANGED <<bid_results, device>>
    /\ UNCHANGED <<keywords, speed_mode, idx, results, failed_keywords, status_log,
                   kw_item, result, exc, statsVars, slept_wait, cleanVars, sanVars>>

\* lines 216-238: the request completes; its dict is merged (lines 241-242)
BidResponse ==
    /\ pc = "bid_wait"
    /\ \E r \in BidResponses :
        /\ bid_results' = Update(bid_results, HandleBidResponse(device, r))
        /\ bid_log' = [bid_log EXCEPT
                          ![Len(bid_log)].status = r.status,
                          ![Len(bid_log)].json_ok = r.json_ok,
                          ![Len(bid_log)].returned = HandleBidResponse(device, r)]
    /\ slept_pace' = 0
    /\ slept_wait' = 0
    /\ device' = AfterDevice(device).device
    /\ pc' = AfterDevice(device).pc
    /\ UNCHANGED <<keywords, speed_mode, idx, results, failed_keywords, status_log,
                   kw_item, result, exc, statsVars, last_gap, cleanVars, sanVars, requests>>

\* ---------------------------------------------------------------------------
\* process_single_keyword (lines 294-331)
\* ---------------------------------------------------------------------------

\* the 17 columns of a row (lines 311-326), their labels in ASCII
StatsColumns ==
    <<"keyword", "PC searches", "Mobile searches", "Total searches",
      "PC CTR", "Mobile CTR", "Competition">>

BidColumns ==
    [i \in 1..10 |-> BidColumn(IF i <= 5 THEN "PC" ELSE "MOBILE",
                               Positions[((i - 1) % 5) + 1])]

Columns == StatsColumns \o BidColumns

ColumnSet == {Columns[i] : i \in 1..Len(Columns)}

\* str(x)
PyToStr(x) ==
    CASE x.t = "str" -> x.s
      [] x.t = "None" -> <<"N", "o", "n", "e">>
      [] x.t = "int" -> IF x.n < 0 THEN <<"-">> \o DigitsOf(-x.n) ELSE DigitsOf(x.n)

\* mutant of RowKeyword: the row is keyed by the sanitized keyword
RowKeyword_Cleaned(keyword) == clean_keyword(keyword)

\* str(keyword) (line 312): the raw string given to process_single_keyword
RowKeyword(keyword) == keyword

\* lines 307-328: the row, or the exception raised while building it
BuildRow(keyword, item, bid_info_dict) ==
    LET pc_cnt == safe_get_number(Get(item, "monthlyPcQcCnt", None), 0)
        mob_cnt == safe_get_number(Get(item, "monthlyMobileQcCnt", None), 0)
    IN  IF Raised(pc_cnt) THEN pc_cnt
        ELSE IF Raised(mob_cnt) THEN mob_cnt
        ELSE [c \in ColumnSet |->
                CASE c = "keyword" -> RowKeyword(keyword)
                  [] c = "PC searches" -> safe_format_number(pc_cnt).s
                  [] c = "Mobile searches" -> safe_format_number(mob_cnt).s
                  [] c = "Total searches" ->
                        safe_format_number(PyInt(pc_cnt.n + mob_cnt.n)).s
                  [] c = "PC CTR" ->
                        safe_format_percentage(Get(item, "monthlyAvePcCtr", None)).s
                  [] c = "Mobile CTR" ->
                        safe_format_percentage(Get(item, "monthlyAveMobileCtr", None)).s
                  [] c = "Competition" -> PyToStr(Get(item, "compIdx", PyStr(Dash)))
                  [] OTHER -> safe_format_bid(Get(bid_info_dict, c, None)).s]

\* mutant of ReturnOrCatch: no except clause, the exception leaves
\* process_single_keyword and search_keywords
ReturnOrCatch_Propagate(row) ==
    IF Raised(row)
    THEN [pc |-> "propagated", result |-> None, exc |-> row.s[1]]
    ELSE [pc |-> "sk_classify", result |-> row, exc |-> "none"]

\* lines 296, 330-331: an exception raised in the try block is caught and
\* None is returned; otherwise the row is returned
ReturnOrCatch(row) ==
    IF Raised(row)
    THEN [pc |-> "sk_classify", result |-> None, exc |-> row.s[1]]
    ELSE [pc |-> "sk_classify", result |-> row, exc |-> "none"]

\* not x, for x None or a dict
Falsy(x) == x = None \/ DOMAIN x = {}

\* mutant of NotKwItem: the early return of lines 300-301 is missing
NotKwItem_Ignored(item) == FALSE

\* if not kw_item (line 300)
NotKwItem(item) == Falsy(item)

\* lines 298-304: fetch_keyword_data has returned
PskStats ==
    /\ pc = "psk_stats"
    /\ IF NotKwItem(kw_item)
       THEN /\ result' = None
            /\ pc' = "sk_classify"
            /\ UNCHANGED <<device, bid_results>>
       ELSE /\ result' = result
            /\ bid_results' = EmptyDict
            /\ device' = "PC"
            /\ pc' = "bid_send"
    /\ responses' = <<>>
    /\ UNCHANGED <<keywords, speed_mode, idx, results, failed_keywords, status_log,
                   kw_item, exc, attempt, sent, bid_log, sleepVars, cleanVars, sanVars, requests>>

\* lines 306-331: fetch_bid_data has returned
PskMerge ==
    /\ pc = "psk_merge"
    /\ LET out == ReturnOrCatch(BuildRow(keywords[idx + 1], kw_item, bid_results))
       IN  /\ result' = out.result
           /\ exc' = out.exc
           /\ pc' = out.pc
    /\ UNCHANGED <<keywords, speed_mode, idx, results, failed_keywords, status_log,
                   kw_item, bid_results, statsVars, bidVars, sleepVars, cleanVars, sanVars, requests>>

\* ---------------------------------------------------------------------------
\* search_keywords (lines 333-363)
\* ---------------------------------------------------------------------------

total_keywords == Len(keywords)

\* mutant of ProgressUpdate: the count is the loop index, not index + 1
ProgressUpdate_ZeroBased(i, keyword) ==
    [kind |-> "progress", count |-> i, total |-> total_keywords,
     keyword |-> keyword, succeeded |-> 0, failed |-> 0]

\* the update of lines 347-349
ProgressUpdate(i, keyword) ==
    [kind |-> "progress", count |-> i + 1, total |-> total_keywords,
     keyword |-> keyword, succeeded |-> 0, failed |-> 0]

\* the update of lines 360-361
CompletionUpdate ==
    [kind |-> "complete", count |-> total_keywords, total |-> total_keywords,
     keyword |-> <<>>, succeeded |-> Len(results), failed |-> Len(failed_keywords)]

\* lines 345-352: the next keyword: the progress update, then
\* process_single_keyword is called
SkNext ==
    /\ pc = "sk_loop"
    /\ idx < total_keywords
    /\ status_log' = Append(status_log, ProgressUpdate(idx, keywords[idx + 1]))
    /\ kw_item' = None
    /\ bid_results' = EmptyDict
    /\ result' = None
    /\ exc' = "none"
    /\ attempt' = 0
    /\ sent' = 0
    /\ responses' = <<>>
    /\ device' = "none"
    /\ bid_log' = <<>>
    /\ pc' = "fkd_start"
    /\ UNCHANGED <<keywords, speed_mode, idx, results, failed_keywords, sleepVars,
                   cleanVars, sanVars, requests>>

\* mutant of Classify: the failed list gets the cleaned keyword
Classify_CleanedFailed(res, keyword, ok, failed) ==
    IF ~Falsy(res)
    THEN [results |-> Append(ok, res), failed_keywords |-> failed]
    ELSE [results |-> ok, failed_keywords |-> Append(failed, clean_keyword(keyword))]

\* lines 354-357: the two lists after the keyword's result is looked at
Classify(res, keyword, ok, failed) ==
    IF ~Falsy(res)
    THEN [results |-> Append(ok, res), failed_keywords |-> failed]
    ELSE [results |-> ok, failed_keywords |-> Append(failed, keyword)]

\* lines 352-357: process_single_keyword has returned; the keyword is classified
SkClassify ==
    /\ pc = "sk_classify"
    /\ LET lists == Classify(result, keywords[idx + 1], results, failed_keywords)
       IN  /\ results' = lists.results
           /\ failed_keywords' = lists.failed_keywords
    /\ idx' = idx + 1
    /\ pc' = "sk_loop"
    /\ UNCHANGED <<keywords, speed_mode, status_log, keywordVars, statsVars, bidVars,
                   sleepVars, cleanVars, sanVars, requests>>

\* lines 359-363: the loop is over
SkFinish ==
    /\ pc = "sk_loop"
    /\ idx = total_keywords
    /\ status_log' = Append(status_log, CompletionUpdate)
    /\ pc' = "done"
    /\ UNCHANGED <<keywords, speed_mode, idx, results, failed_keywords, keywordVars,
                   statsVars, bidVars, sleepVars, cleanVars, sanVars, requests>>

\* ---------------------------------------------------------------------------
\* Spec: one run of search_keywords on a list main() can pass (lines 455-475)
\* ---------------------------------------------------------------------------

RawKeywords == { <<"a">>, <<"b", ",">>, <<",">> }

Range(q) == {q[i] : i \in 1..Len(q)}

\* the sequences of at most n distinct elements of S
RECURSIVE DistinctSeqs(_, _)
DistinctSeqs(S, n) ==
    IF n = 0 THEN {<<>>}
    ELSE LET shorter == DistinctSeqs(S, n - 1)
         IN  shorter \cup UNION {{Append(q, x) : x \in S \ Range(q)} : q \in shorter}

KeywordInputs == DistinctSeqs(RawKeywords, MaxKeywords) \ {<<>>}

Init ==
    /\ keywords \in KeywordInputs
    /\ speed_mode \in DOMAIN SPEED_MODES
    /\ pc = "sk_loop"
    /\ idx = 0
    /\ results = <<>>
    /\ failed_keywords = <<>>
    /\ status_log = <<>>
    /\ requests = 0
    /\ kw_item = None
    /\ bid_results = EmptyDict
    /\ result = None
    /\ exc = "none"
    /\ attempt = 0
    /\ sent = 0
    /\ responses = <<>>
    /\ device = "none"
    /\ bid_log = <<>>
    /\ slept_pace = 0
    /\ slept_wait = 0
    /\ last_gap = [pace |-> 0, wait |-> 0]
    /\ cstep = 0
    /\ cin = <<>>
    /\ cout = <<>>
    /\ cout2 = <<>>
    /\ sstep = 0
    /\ svalue = None
    /\ sfun = "none"
    /\ sout = None

Next ==
    \/ SkNext
    \/ FkdStart
    \/ FkdAttempt
    \/ FkdExhausted
    \/ FkdResponse
    \/ PskStats
    \/ BidSend
    \/ BidResponse
    \/ PskMerge
    \/ SkClassify
    \/ SkFinish

Spec == Init /\ [][Next]_vars

\* ---------------------------------------------------------------------------
\* SpecClean: clean_keyword on every string of at most MaxLen characters
\* ---------------------------------------------------------------------------

CleanAlphabet == {"a", " ", ".", ",", "\t"}

RECURSIVE StringsUpTo(_, _)
StringsUpTo(alphabet, n) ==
    IF n = 0 THEN {<<>>}
    ELSE LET shorter == StringsUpTo(alphabet, n - 1)
         IN  shorter \cup {Append(s, c) : s \in shorter, c \in alphabet}

\* no batch is running
Idle ==
    /\ keywords = <<>>
    /\ speed_mode = 0
    /\ pc = "idle"
    /\ idx = 0
    /\ results = <<>>
    /\ failed_keywords = <<>>
    /\ status_log = <<>>
    /\ requests = 0
    /\ kw_item = None
    /\ bid_results = EmptyDict
    /\ result = None
    /\ exc = "none"
    /\ attempt = 0
    /\ sent = 0
    /\ responses = <<>>
    /\ device = "none"
    /\ bid_log = <<>>
    /\ slept_pace = 0
    /\ slept_wait = 0
    /\ last_gap = [pace |-> 0, wait |-> 0]

notClean == <<batchVars, keywordVars, statsVars, bidVars, sleepVars, sanVars>>

\* no sanitizer is being applied
SanitizeIdle ==
    /\ sstep = 0
    /\ svalue = None
    /\ sfun = "none"
    /\ sout = None

InitClean ==
    /\ Idle
    /\ SanitizeIdle
    /\ cstep = 0
    /\ cin \in StringsUpTo(CleanAlphabet, MaxLen)
    /\ cout = <<>>
    /\ cout2 = <<>>

CleanOnce ==
    /\ cstep = 0
    /\ cstep' = 1
    /\ cout' = clean_keyword(cin)
    /\ UNCHANGED <<cin, cout2, notClean>>

CleanAgain ==
    /\ cstep = 1
    /\ cstep' = 2
    /\ cout2' = clean_keyword(cout)
    /\ UNCHANGED <<cin, cout, notClean>>

NextClean == CleanOnce \/ CleanAgain

SpecClean == InitClean /\ [][NextClean]_vars

\* ---------------------------------------------------------------------------
\* SpecSanitize: one of the four sanitizers (lines 246-292) applied to every
\* kind of value an upstream JSON field can hold
\* ---------------------------------------------------------------------------

\* longest string value given to a sanitizer
MaxValueLen == 4

ValueAlphabet == {"0", "1", ".", "-", "<", ",", " ", "x"}

\* ints, and finite floats in units of 1/10000 (-2.5, 0.0, 0.5, 1.2345, 1500.75)
IntValues == {-5, 0, 7, 1500, 12345}
FloatValuesE4 == {-25000, 0, 5000, 12345, 15007500}

SanitizerInputs ==
    {None, NaN, Infinity, PyList}
        \cup {PyInt(i) : i \in IntValues}
        \cup {PyFloat(e4) : e4 \in FloatValuesE4}
        \cup {PyStr(str) : str \in StringsUpTo(ValueAlphabet, MaxValueLen)}

notSanitize == <<batchVars, keywordVars, statsVars, bidVars, sleepVars, cleanVars>>

InitSanitize ==
    /\ Idle
    /\ cstep = 0
    /\ cin = <<>>
    /\ cout = <<>>
    /\ cout2 = <<>>
    /\ sstep = 0
    /\ svalue \in SanitizerInputs
    /\ sfun = "none"
    /\ sout = None

ApplySafeGetNumber ==
    /\ sstep = 0
    /\ sstep' = 1
    /\ sfun' = "safe_get_number"
    /\ sout' = safe_get_number(svalue, 0)
    /\ UNCHANGED <<svalue, notSanitize>>

ApplySafeFormatNumber ==
    /\ sstep = 0
    /\ sstep' = 1
    /\ sfun' = "safe_format_number"
    /\ sout' = safe_format_number(svalue)
    /\ UNCHANGED <<svalue, notSanitize>>

ApplySafeFormatPercentage ==
    /\ sstep = 0
    /\ sstep' = 1
    /\ sfun' = "safe_format_percentage"
    /\ sout' = safe_format_percentage(svalue)
    /\ UNCHANGED <<svalue, notSanitize>>

ApplySafeFormatBid ==
    /\ sstep = 0
    /\ sstep' = 1
    /\ sfun' = "safe_format_bid"
    /\ sout' = safe_format_bid(svalue)
    /\ UNCHANGED <<svalue, notSanitize>>

NextSanitize ==
    \/ ApplySafeGetNumber
    \/ ApplySafeFormatNumber
    \/ ApplySafeFormatPercentage
    \/ ApplySafeFormatBid

SpecSanitize == InitSanitize /\ [][NextSanitize]_vars

\* ---------------------------------------------------------------------------
\* Claims about fetch_keyword_data
\* ---------------------------------------------------------------------------

retry_count == mode_config.retry_count

Is429(r) == r.exc = "none" /\ r.status = 429

\* a 200 answer with a parseable body whose first element has a primary keyword
ValidFirstMatch(r) ==
    /\ r.exc = "none" /\ r.status = 200 /\ r.json_ok
    /\ r.keywordList # <<>>
    /\ IsDict(r.keywordList[1])
    /\ Truthy(Get(r.keywordList[1], "relKeyword", None))

\* an answer after which the claims expect another attempt
RetryableOutcome(r) ==
    \/ r.exc # "none"
    \/ r.status = 200 /\ ~r.json_ok
    \/ r.status \notin {200, 401}

\* C1: when the upstream answers 429 to the first N-1 attempts and then 200
\* with a valid first match (1 <= N <= retry_count), the call goes on through
\* the 429s without returning and returns that match after exactly N requests.
C1_RetryUntilSuccess ==
    LET n == Len(responses)
    IN  /\ ( /\ pc \in {"fkd_loop", "fkd_wait", "psk_stats"}
             /\ n >= 1 /\ n < retry_count
             /\ \A i \in 1..n : Is429(responses[i]) )
            => /\ pc \in {"fkd_loop", "fkd_wait"}
               /\ sent = IF pc = "fkd_wait" THEN n + 1 ELSE n
        /\ ( /\ pc = "psk_stats"
             /\ n >= 1
             /\ \A i \in 1..(n - 1) : Is429(responses[i])
             /\ ValidFirstMatch(responses[n]) )
            => /\ kw_item = responses[n].keywordList[1]
               /\ sent = n
               /\ n <= retry_count

\* the call returned its match on the last attempt of a mode with 3 attempts
C1_Witness ==
    /\ pc = "psk_stats"
    /\ Len(responses) = 3
    /\ Is429(responses[1]) /\ Is429(responses[2])
    /\ ValidFirstMatch(responses[3])
    /\ kw_item = ItemOK
    /\ sent = 3

\* C2: a 401 is never retried: it is the last answer of its call, the call
\* has returned None, and no request followed it, whatever attempt it came on.
C2_NoRetryAfter401 ==
    \A i \in 1..Len(responses) :
        (responses[i].exc = "none" /\ responses[i].status = 401)
            => /\ i = Len(responses)
               /\ pc = "psk_stats"
               /\ kw_item = None
               /\ sent = i

\* a 401 arriving on the second attempt, after a retried 429
C2_Witness ==
    /\ pc = "psk_stats"
    /\ Len(responses) = 2
    /\ Is429(responses[1])
    /\ responses[2].status = 401
    /\ retry_count = 3
    /\ kw_item = None
    /\ sent = 2

\* C3: at most retry_count requests are sent by a call, and a call whose
\* every attempt ended in a retryable outcome returns None after exactly
\* retry_count requests.
C3_RetryBudget ==
    /\ sent <= retry_count
    /\ ( /\ pc = "psk_stats"
         /\ responses # <<>>
         /\ \A i \in 1..Len(responses) : RetryableOutcome(responses[i]) )
        => /\ kw_item = None
           /\ sent = retry_count
           /\ Len(responses) = retry_count

\* three attempts used up by a timeout, an unparseable 200 body and a 403
C3_Witness ==
    /\ pc = "psk_stats"
    /\ Len(responses) = 3
    /\ responses[1].exc = "Timeout"
    /\ responses[2].status = 200 /\ ~responses[2].json_ok
    /\ responses[3].status = 403
    /\ kw_item = None
    /\ sent = 3

\* a 200 answer with a parseable body
IsParsed(r) == r.exc = "none" /\ r.status = 200 /\ r.json_ok

\* the positions of l whose element is a dict with a non-empty relKeyword
Matching(l) ==
    {i \in 1..Len(l) :
        /\ "relKeyword" \in DOMAIN l[i]
        /\ l[i]["relKeyword"].t = "str"
        /\ l[i]["relKeyword"].s # <<>>}

\* C15 as stated: on a parsed 200 answer the call returns the first element
\* of keywordList that has a non-empty relKeyword, skipping earlier elements
\* that lack it, and None only when no element has one.
C15_FirstMatchReturned ==
    (pc = "psk_stats" /\ responses # <<>> /\ IsParsed(responses[Len(responses)]))
        => LET l == responses[Len(responses)].keywordList
           IN  IF Matching(l) = {} THEN kw_item = None
               ELSE kw_item = l[CHOOSE i \in Matching(l) :
                                    \A j \in Matching(l) : i <= j]

\* C15 as amended: on a parsed 200 answer the call looks at the first element
\* of keywordList only: it returns that element when it has a non-empty
\* relKeyword, and None when the list is empty or its first element lacks
\* one, even if a later element has one.
C15_FirstElementOnly ==
    (pc = "psk_stats" /\ responses # <<>> /\ IsParsed(responses[Len(responses)]))
        => LET l == responses[Len(responses)].keywordList
           IN  IF 1 \in Matching(l) THEN kw_item = l[1] ELSE kw_item = None

\* the answer held an element without relKeyword before one with it, and the
\* call returned None
C15_Witness ==
    /\ pc = "psk_stats"
    /\ responses # <<>>
    /\ IsParsed(responses[Len(responses)])
    /\ responses[Len(responses)].keywordList = <<ItemNoRel, ItemOK>>
    /\ Matching(responses[Len(responses)].keywordList) = {2}
    /\ kw_item = None

IsRateLimited(r) == r.exc = "none" /\ r.status \in {403, 429}

\* C12: after a 403 or 429 on attempt i (from 0) that is followed by another
\* attempt, the retry delay slept between that answer and the sending of
\* attempt i+1 is exactly wait_between_retries[min(i, len-1)]; the index stays
\* inside the sequence; and no retry delay is slept unless a retry follows.
C12_RetryDelayAfterRateLimit ==
    /\ ( /\ pc = "fkd_wait"
         /\ sent >= 2
         /\ IsRateLimited(responses[sent - 1]) )
        => last_gap.wait = WaitBetweenRetries(mode_config, sent - 2)
    /\ \A i \in 0..(retry_count - 1) :
          Min(i, Len(mode_config.wait_between_retries) - 1) + 1
              \in DOMAIN mode_config.wait_between_retries
    /\ (pc = "psk_stats" /\ responses # <<>>) => slept_wait = 0

\* a 200 answer whose body json cannot parse
IsUnparseable(r) == r.exc = "none" /\ r.status = 200 /\ ~r.json_ok

\* the element of wait_between_retries that belongs to a failed attempt i
\* (from 0), the last element standing in for the missing ones
DelayOfAttempt(i) ==
    LET w == mode_config.wait_between_retries
    IN  IF i + 1 <= Len(w) THEN w[i + 1] ELSE w[Len(w)]

\* C13 as stated: a 200 with an unparseable body is retried while the budget
\* lasts, and between that answer and the sending of the next attempt only
\* the pacing gap is slept, no element of wait_between_retries.
C13_NoDelayAfterUnparseable ==
    /\ ( /\ pc = "fkd_wait"
         /\ sent >= 2
         /\ IsUnparseable(responses[sent - 1]) )
        => /\ last_gap.wait = 0
           /\ last_gap.pace = PacingInterval(mode_config)
    /\ ( /\ pc = "psk_stats"
         /\ responses # <<>>
         /\ IsUnparseable(responses[Len(responses)]) )
        => Len(responses) = retry_count

\* C13 as amended: a 200 with an unparseable body on attempt i is retried
\* while the budget lasts, without a sleep of its own after the answer;
\* between that answer and the sending of attempt i+1 the code sleeps the
\* wait every retry starts with, wait_between_retries[min(i, len-1)], once,
\* and the pacing gap.
C13_OneDelayAfterUnparseable ==
    /\ ( /\ pc = "fkd_loop"
         /\ responses # <<>>
         /\ IsUnparseable(responses[Len(responses)]) )
        => slept_wait = 0
    /\ ( /\ pc = "fkd_wait"
         /\ sent >= 2
         /\ IsUnparseable(responses[sent - 1]) )
        => /\ last_gap.wait = DelayOfAttempt(sent - 2)
           /\ last_gap.pace = PacingInterval(mode_config)
    /\ ( /\ pc = "psk_stats"
         /\ responses # <<>>
         /\ IsUnparseable(responses[Len(responses)]) )
        => /\ Len(responses) = retry_count
           /\ slept_wait = 0

\* the third attempt of mode 1 in flight, sent 10 s and one pacing gap after
\* the second attempt was answered by an unparseable 200
C13_Witness ==
    /\ pc = "fkd_wait"
    /\ speed_mode = 1
    /\ sent = 3
    /\ IsUnparseable(responses[2])
    /\ last_gap.wait = 10
    /\ last_gap.pace = PacingInterval(mode_config)

\* ---------------------------------------------------------------------------
\* Claims about pacing
\* ---------------------------------------------------------------------------

\* C4: every request in flight (a stats attempt, a PC or a MOBILE bid
\* request) was sent after a pacing sleep of at least 1/calls_per_second
\* slept since the previous request of the client completed.
C4_PacedRequests ==
    pc \in {"fkd_wait", "bid_wait"} => last_gap.pace >= PacingInterval(mode_config)

\* the MOBILE bid request in flight, sent right after the PC answer
C4_Witness ==
    /\ pc = "bid_wait"
    /\ device = "MOBILE"
    /\ Len(bid_log) = 2
    /\ last_gap.pace = PacingInterval(mode_config)
    /\ last_gap.wait = 0

\* ---------------------------------------------------------------------------
\* Claims about process_single_keyword and search_keywords
\* ---------------------------------------------------------------------------

\* C5: when the stats fetch returned None, fetch_bid_data is not called, no
\* bid request is sent for the keyword, and the keyword ends in failed.
C5_NoBidsWithoutStats ==
    (pc \in {"sk_classify", "sk_loop", "done"} /\ idx + (IF pc = "sk_classify" THEN 1 ELSE 0) > 0
        /\ kw_item = None)
        => /\ bid_log = <<>>
           /\ device = "none"
           /\ result = None
           /\ pc # "sk_classify" =>
                 /\ failed_keywords # <<>>
                 /\ failed_keywords[Len(failed_keywords)] = keywords[idx]

\* the second keyword failed after its stats requests were answered
C5_Witness ==
    /\ pc = "sk_loop"
    /\ idx = 2
    /\ kw_item = None
    /\ sent = 2
    /\ bid_log = <<>>
    /\ failed_keywords[Len(failed_keywords)] = keywords[2]

\* a is a subsequence of b
RECURSIVE IsSubseq(_, _)
IsSubseq(a, b) ==
    IF a = <<>> THEN TRUE
    ELSE IF b = <<>> THEN FALSE
    ELSE IF Head(a) = Head(b) THEN IsSubseq(Tail(a), Tail(b))
    ELSE IsSubseq(a, Tail(b))

ResultKeywords == [j \in 1..Len(results) |-> results[j]["keyword"]]

\* C6: the whole list is processed: the two lists together always hold the
\* keywords classified so far, and when the run is over every input keyword
\* is in exactly one of them (succeeded by its row, failed by its raw
\* string), the lengths add up to the input's, and both keep the input order.
C6_FullPartition ==
    /\ Len(results) + Len(failed_keywords) = idx
    /\ pc = "done" =>
        /\ idx = Len(keywords)
        /\ Len(results) + Len(failed_keywords) = Len(keywords)
        /\ \A i \in 1..Len(keywords) :
              (keywords[i] \in Range(ResultKeywords))
                  # (keywords[i] \in Range(failed_keywords))
        /\ IsSubseq(ResultKeywords, keywords)
        /\ IsSubseq(failed_keywords, keywords)

\* a finished run in which the first keyword failed and the second succeeded
C6_Witness ==
    /\ pc = "done"
    /\ Len(keywords) = 2
    /\ failed_keywords = <<keywords[1]>>
    /\ Len(results) = 1
    /\ results[1]["keyword"] = keywords[2]

ProgressUpdates == SelectSeq(status_log, LAMBDA u : u.kind = "progress")

\* C7 as stated: once per keyword, n updates with counts 1..n, each emitted
\* after its keyword was processed, so that a reported count of k means k
\* keywords have been classified.
C7_ProgressAfterKeyword ==
    /\ \A i \in 1..Len(ProgressUpdates) :
          /\ ProgressUpdates[i].count = i
          /\ ProgressUpdates[i].count <= idx
    /\ pc = "done" => Len(ProgressUpdates) = Len(keywords)

\* C7 as amended: once per keyword, n updates with counts 1..n in increasing
\* order, each emitted before its keyword is processed: a reported count of
\* k means k-1 keywords were classified when it was emitted, and the k-th is
\* classified by the time the next update is emitted.  One completion update
\* follows the loop.
C7_ProgressBeforeKeyword ==
    /\ \A i \in 1..Len(ProgressUpdates) :
          /\ ProgressUpdates[i].count = i
          /\ ProgressUpdates[i].total = Len(keywords)
          /\ ProgressUpdates[i].keyword = keywords[i]
          /\ status_log[i] = ProgressUpdates[i]
    /\ Len(ProgressUpdates) = IF pc \in {"sk_loop", "done"} THEN idx ELSE idx + 1
    /\ pc = "done" =>
          /\ Len(ProgressUpdates) = Len(keywords)
          /\ Len(status_log) = Len(keywords) + 1
          /\ status_log[Len(status_log)].kind = "complete"

\* the second update is out (count 2) while only the first keyword, which
\* failed, has been classified
C7_Witness ==
    /\ pc = "fkd_wait"
    /\ Len(ProgressUpdates) = 2
    /\ ProgressUpdates[2].count = 2
    /\ idx = 1
    /\ Len(failed_keywords) = 1

\* C10: no exception leaves process_single_keyword: a raise while merging
\* is turned into the result None and the keyword fails; the loop then
\* classifies the keyword and goes on with the next one, and the run only
\* ends when every keyword is classified.
C10_NoErrorEscapes ==
    /\ pc # "propagated"
    /\ exc # "none" =>
          /\ pc \in {"sk_classify", "sk_loop", "done"}
          /\ result = None
          /\ pc # "sk_classify" => failed_keywords[Len(failed_keywords)] = keywords[idx]
    /\ pc = "sk_classify" => ENABLED SkClassify
    /\ (pc = "sk_loop" /\ idx < Len(keywords)) => ENABLED SkNext
    /\ pc = "done" => idx = Len(keywords)

\* the first of two keywords failed on a ValueError raised by the merge, after
\* both bid requests, and the loop is about to go on with the second
C10_Witness ==
    /\ pc = "sk_loop"
    /\ exc = "ValueError"
    /\ Len(keywords) = 2
    /\ idx = 1
    /\ Len(bid_log) = 2
    /\ failed_keywords = <<keywords[1]>>

\* the requests of bid_log made for device d
BidRequestsOf(d) == {k \in 1..Len(bid_log) : bid_log[k].device = d}

\* a bid answer the retry policy of the stats call would retry
BidRetryable(status) == status \in {0, 403, 429, 500}

\* C14 as stated: a device's bid request that ends in a 403, a 429 or another
\* retryable failure is followed by further attempts for that device, and the
\* device's bids are only given up after retry_count requests.
C14_BidRetried ==
    pc = "psk_merge" =>
        \A d \in {"PC", "MOBILE"} :
            (\A k \in BidRequestsOf(d) : BidRetryable(bid_log[k].status))
                => Cardinality(BidRequestsOf(d)) = retry_count

\* C14 as amended: each device's bid request is sent once and never retried:
\* whatever answers it (a 403 or 429 included), the device's five bids are
\* given up as None at once and the next step follows.
C14_BidSentOnce ==
    /\ \A d \in {"PC", "MOBILE"} : Cardinality(BidRequestsOf(d)) <= 1
    /\ \A k \in 1..Len(bid_log) :
          bid_log[k].status \notin {-1, 200} =>
              /\ bid_log[k].returned = AllNone(bid_log[k].device)
              /\ \A i \in 1..Len(Positions) :
                    bid_results[BidColumn(bid_log[k].device, Positions[i])] = None
              /\ (k = Len(bid_log) /\ pc \in {"bid_send", "bid_wait"})
                    => (bid_log[k].device = "PC" /\ device = "MOBILE")
    /\ pc = "psk_merge" =>
          \A d \in {"PC", "MOBILE"} : Cardinality(BidRequestsOf(d)) = 1

\* both devices answered 429 in a mode with 3 attempts: two requests in all
C14_Witness ==
    /\ pc = "psk_merge"
    /\ retry_count = 3
    /\ Len(bid_log) = 2
    /\ bid_log[1].status = 429
    /\ bid_log[2].status = 429
    /\ \A c \in Range(BidColumns) : bid_results[c] = None

\* C16: the dict fetch_bid_data returns always holds all 10 (device,
\* position) keys, whatever the two requests were answered with: each call of
\* fetch_device_bid returns its device's 5 keys, the positions missing from a
\* 200 answer being None, and the merged dict is never empty or partial.
C16_AllTenKeys ==
    /\ \A k \in 1..Len(bid_log) :
          bid_log[k].status # -1 =>
              DOMAIN bid_log[k].returned = DOMAIN AllNone(bid_log[k].device)
    /\ pc = "psk_merge" => DOMAIN bid_results = Range(BidColumns)

\* the request has been answered
BidCompleted(e) == e.status # -1

\* the fetch failed: a non-200 status, a timeout or exception, a bad body
BidFailed(e) == BidCompleted(e) /\ (e.status # 200 \/ ~e.json_ok)

\* C17: the bid requests go out in the order PC, MOBILE, the second only
\* after the first was answered; a failed fetch gives None for its device's
\* 5 positions, the other device's request is sent all the same, and what
\* each device returned is in the merged dict unchanged.
C17_DevicesIndependent ==
    /\ Len(bid_log) <= 2
    /\ \A k \in 1..Len(bid_log) :
          /\ bid_log[k].device = IF k = 1 THEN "PC" ELSE "MOBILE"
          /\ k < Len(bid_log) => BidCompleted(bid_log[k])
          /\ BidFailed(bid_log[k]) =>
                /\ bid_log[k].returned = AllNone(bid_log[k].device)
                /\ k = 1 => \/ pc \in {"bid_send", "bid_wait"} /\ device = "MOBILE"
                            \/ Len(bid_log) = 2
          /\ BidCompleted(bid_log[k]) =>
                \A c \in DOMAIN bid_log[k].returned :
                    /\ c \in DOMAIN bid_results
                    /\ bid_results[c] = bid_log[k].returned[c]
    /\ pc = "bid_wait" => ~BidCompleted(bid_log[Len(bid_log)])
    /\ pc = "psk_merge" =>
          /\ Len(bid_log) = 2
          /\ BidCompleted(bid_log[2])
          /\ DOMAIN bid_results =
                DOMAIN bid_log[1].returned \cup DOMAIN bid_log[2].returned

\* the PC request returned its 5 bids, the MOBILE request timed out: the
\* merged dict holds the PC bids and None for MOBILE
C17_Witness ==
    /\ pc = "psk_merge"
    /\ bid_log[1].status = 200
    /\ bid_log[1].returned = EstimateDict("PC", EstimateFull)
    /\ bid_log[2].status = 0
    /\ BidFailed(bid_log[2])
    /\ bid_results["PC 1"] = PyInt(1500)
    /\ bid_results["PC 5"] = PyInt(70)
    /\ \A i \in 1..5 : bid_results[BidColumn("MOBILE", i)] = None

\* the bid columns of row that read "-"
DashColumns(row) == {c \in Range(BidColumns) : row[c] = Dash}

\* C11: every row in results has exactly the 17 fixed columns, whatever
\* positions the bid answers held, and its keyword column is the raw input
\* string of the keyword it was built for, not the sanitized form.
C11_FixedColumnsRawKeyword ==
    /\ Cardinality(ColumnSet) = 17
    /\ \A i \in 1..Len(results) :
          /\ DOMAIN results[i] = ColumnSet
          /\ results[i]["keyword"] \in Range(keywords)
    /\ IsSubseq(ResultKeywords, SubSeq(keywords, 1, idx))
    /\ (pc = "sk_classify" /\ result # None) =>
          /\ DOMAIN result = ColumnSet
          /\ result["keyword"] = keywords[idx + 1]

\* a row for the raw keyword "b," (sanitized: "b") built from a PC answer
\* holding positions 1 and 3 only and a MOBILE answer holding none
C11_Witness ==
    /\ Len(results) >= 1
    /\ results[1]["keyword"] = <<"b", ",">>
    /\ clean_keyword(results[1]["keyword"]) = <<"b">>
    /\ DOMAIN bid_results = {"PC 1", "PC 3"}
    /\ results[1]["PC 1"] = <<"1", ",", "5", "0", "0">>
    /\ Cardinality(DashColumns(results[1])) = 9
    /\ pc = "sk_loop" /\ idx = 1

\* C21: success depends on the stats fetch alone: a keyword whose stats fetch
\* returned a record ends in results, also when one or both bid requests
\* failed (with 401, 403 or 429 too), the failed device's five bid columns
\* then reading "-"; a keyword only ends in failed_keywords when its stats
\* fetch returned None.
C21_SuccessDependsOnStatsOnly ==
    (pc \in {"sk_loop", "done"} /\ idx >= 1) =>
        /\ kw_item # None =>
              /\ results # <<>>
              /\ results[Len(results)]["keyword"] = keywords[idx]
              /\ Len(bid_log) = 2
              /\ \A k \in 1..Len(bid_log) :
                    BidFailed(bid_log[k]) =>
                        \A i \in 1..Len(Positions) :
                            results[Len(results)][BidColumn(bid_log[k].device,
                                                            Positions[i])] = Dash
        /\ (failed_keywords # <<>>
               /\ failed_keywords[Len(failed_keywords)] = keywords[idx])
              => kw_item = None

\* the requests one keyword may cost: retry_count stats attempts, 2 bid requests
RequestsPerKeyword == retry_count + 2

\* the steps one keyword may take, from the progress update to its
\* classification
StepsPerKeyword == 2 * retry_count + 10

\* the steps the current keyword may still take before it is classified
StepsLeftInKeyword ==
    CASE pc = "fkd_start" -> 2 * retry_count + 9
      [] pc = "fkd_loop" -> 2 * (retry_count - attempt) + 8
      [] pc = "fkd_wait" -> 2 * (retry_count - attempt) + 7
      [] pc = "psk_stats" -> 7
      [] pc = "bid_send" -> IF device = "PC" THEN 6 ELSE 4
      [] pc = "bid_wait" -> IF device = "PC" THEN 5 ELSE 3
      [] pc = "psk_merge" -> 2
      [] pc = "sk_classify" -> 1
      [] OTHER -> 0

\* a bound on the steps the run may still take before it returns
StepsLeft ==
    CASE pc = "done" -> 0
      [] pc = "sk_loop" -> (Len(keywords) - idx) * StepsPerKeyword + 1
      [] OTHER -> (Len(keywords) - idx - 1) * StepsPerKeyword + 1
                      + StepsLeftInKeyword

\* the run is never stuck before it returns: in every position the step of
\* that position can be taken (the merge has no condition but its position)
CanStep ==
    CASE pc = "sk_loop" -> ENABLED SkNext \/ ENABLED SkFinish
      [] pc = "fkd_start" -> ENABLED FkdStart
      [] pc = "fkd_loop" -> ENABLED FkdAttempt \/ ENABLED FkdExhausted
      [] pc = "fkd_wait" -> ENABLED FkdResponse
      [] pc = "psk_stats" -> ENABLED PskStats
      [] pc = "bid_send" -> ENABLED BidSend
      [] pc = "bid_wait" -> ENABLED BidResponse
      [] pc = "psk_merge" -> TRUE
      [] pc = "sk_classify" -> ENABLED SkClassify
      [] OTHER -> pc = "done"

\* the run has returned with every keyword classified
Returned ==
    /\ pc = "done"
    /\ idx = Len(keywords)
    /\ Len(results) + Len(failed_keywords) = Len(keywords)

\* C20: whatever the upstream answers, a keyword costs at most retry_count
\* stats requests and 2 bid requests and a run over n keywords sends at most
\* n * (retry_count + 2) requests; and the run terminates: it is never stuck
\* before it returns, every step lowers the bound StepsLeft on the steps to
\* come, which is never negative, and it stops only when it has returned
\* with every keyword classified.
C20_Terminates ==
    /\ [](/\ sent <= retry_count
          /\ Len(bid_log) <= 2
          /\ requests <= Len(keywords) * RequestsPerKeyword
          /\ requests <= idx * RequestsPerKeyword + sent + Len(bid_log)
          /\ StepsLeft >= 0
          /\ CanStep
          /\ (StepsLeft = 0 \/ pc = "done") => Returned)
    /\ [][StepsLeft' < StepsLeft]_vars

\* a finished run of two keywords in a mode with 3 attempts that sent all
\* the 2 * (3 + 2) requests it may send
C20_Witness ==
    /\ Returned
    /\ StepsLeft = 0
    /\ Len(keywords) = 2
    /\ retry_count = 3
    /\ requests = 10

\* ---------------------------------------------------------------------------
\* Claims about the sanitizers
\* ---------------------------------------------------------------------------

\* the magnitude of a numeral: the string without its leading minus sign
Magnitude(str) == IF str # <<>> /\ str[1] = "-" THEN Tail(str) ELSE str

\* a numeric string whose value is zero or negative
NonPositiveNumeral(str) ==
    /\ IsUnsignedFloat(Magnitude(str))
    /\ \/ str[1] = "-"
       \/ \A i \in 1..Len(str) : str[i] \in {"0", "."}

\* a bid formatBid must show as "-": None, empty, zero, or <= 0 as a number
\* or as a numeric string
NoBid(v) ==
    \/ v.t = "None"
    \/ v.t \in {"int", "float"} /\ v.n <= 0
    \/ v.t = "str" /\ (v.s = <<>> \/ NonPositiveNumeral(v.s))

\* the thousands-grouped form of a strictly positive integer
PositiveGrouped(str) ==
    /\ str # <<>>
    /\ isdigit(str[1]) /\ str[1] # "0"
    /\ \A i \in 1..Len(str) : isdigit(str[i]) \/ str[i] = ","

\* C18: safe_format_bid returns "-" for every bid that is None, empty, zero
\* or numerically <= 0, given as a number or as a numeric string; and its
\* result is always "-" or the grouped form of a strictly positive integer.
C18_BidDashOrPositive ==
    (sstep = 1 /\ sfun = "safe_format_bid") =>
        /\ ~Raised(sout)
        /\ NoBid(svalue) => sout.s = Dash
        /\ sout.s = Dash \/ PositiveGrouped(sout.s)

\* C19: the four sanitizers are total: whatever the value (None, int, finite
\* float, NaN, Infinity, string of any shape, list), each returns a value
\* and none raises.
C19_SanitizersTotal ==
    sstep = 1 => (~Raised(sout) /\ sout.t \in {"int", "str"})

\* ---------------------------------------------------------------------------
\* Claims about clean_keyword
\* ---------------------------------------------------------------------------

\* C8: clean_keyword is idempotent: cleaning an already cleaned string
\* leaves it unchanged.
C8_CleanIdempotent == cstep = 2 => cout2 = cout

\* C9: the output of clean_keyword holds no disallowed character, has no
\* leading or trailing space and never holds two consecutive spaces.
C9_CleanOutputShape ==
    cstep >= 1 =>
        /\ \A i \in 1..Len(cout) : isalnum(cout[i]) \/ cout[i] \in AllowedLiteral
        /\ cout # <<>> => (cout[1] # " " /\ cout[Len(cout)] # " ")
        /\ ~HasDoubleSpace(cout)

====
